---------------------------- MODULE Spec2Model ----------------------------
(***************************************************************************)
(* Model of the fragments contracts:                                       *)
(*   - FaNft (src/contracts/fa-nft/lib.rs): the ERC-721 style ledger of    *)
(*     fragment acknowledgement tokens;                                     *)
(*   - FragmentsRound (src/contracts/round/lib.rs): the round that mints    *)
(*     through the ledger after an MMR membership proof.                    *)
(*                                                                         *)
(* Every message is one atomic step.  A message body is translated as the   *)
(* Rust method it is: a `?` or `return Err(..)` leaves the method with the  *)
(* storage exactly as the statements executed so far have written it.       *)
(***************************************************************************)
EXTENDS Integers, Sequences, FiniteSets, TLC

\* ------------------------------------------------------------------ bounds
\* fragment cids 0..MaxCid are the ones a mint or a claim may name
MaxCid == 0
\* block numbers 0..MaxBlock
MaxBlock == 0
\* the longest sequence of leaves pushed to an MMR, and the largest element
MaxLeaves == 5
MaxSecret == 1

\* ---------------------------------------------------------------- accounts
\* AccountId::from([0x0; 32])
NullAccount == 0
\* default_accounts().alice, the deployer in the unit tests
Alice == 1
\* default_accounts().bob
Bob == 2
\* the account of the deployed FragmentsRound contract
RoundAccount == 3
\* the account of the FaNft contract the round instantiates
FaNftAccount == 4

\* the accounts that sign calls
Callers == {Alice, Bob}
\* the accounts a call may name as an argument
Accounts == {NullAccount} \cup Callers

FragmentCids == 0..MaxCid
BlockNumbers == 0..MaxBlock

\* Option<T>: None is the empty sequence, Some(x) the one-element sequence
None == <<>>
Some(x) == <<x>>
IsSome(o) == o # None
Unwrap(o) == o[1]

\* ------------------------------------------------------------------ HashId
\* SCALE encoding of TokenRef(cid, account, block_number), concatenated:
\* fixed-width fields, hence injective
EncodeTokenRef(cid, account, bn) ==
    (cid * 4 + account) * (MaxBlock + 2) + bn

\* width of the modelled token id space (stands for the 64 bits of TokenId)
IdModulus == 251

\* impl From<TokenRef> for TokenId: hash of the encoding, truncated.  The
\* hash is modelled by a fixed mixing function that is collision free on the
\* bounded domain (the spec's correctness assumption on the hash).
TokenIdFrom(cid, account, bn) ==
    (EncodeTokenRef(cid, account, bn) * 37 + 11) % IdModulus

\* every id a mint can derive
TokenIds ==
    { TokenIdFrom(c, a, b) : c \in FragmentCids, a \in Accounts, b \in BlockNumbers }

\* the ids a caller names in burn, transfer, transfer_from and approve: the
\* ids derived for the signing accounts (unminted, live or burned)
IdArgs ==
    { TokenIdFrom(c, a, b) : c \in FragmentCids, a \in Callers, b \in BlockNumbers }

\* FragmentAcknowledgement { fragment_cid, block_number }
FragmentAcknowledgement(cid, bn) == [fragment_cid |-> cid, block_number |-> bn]

\* events: Transfer { from, to, id }, Approval { from, to, id },
\* ApprovalForAll { owner, operator, approved }
TransferEvent(from, to, id) == <<"Transfer", from, to, id>>
ApprovalEvent(from, to, id) == <<"Approval", from, to, id>>
ApprovalForAllEvent(owner, operator, approved) ==
    <<"ApprovalForAll", owner, operator, IF approved THEN 1 ELSE 0>>

VARIABLES
    \* FaNft storage
    token_owner,               \* Mapping<TokenId, AccountId>
    token_approvals,           \* Mapping<TokenId, AccountId>
    owned_tokens_count,        \* Mapping<AccountId, u32>
    operator_approvals,        \* Mapping<(AccountId, AccountId), ()>
    contract_owner,            \* AccountId
    fragment_acknowledgments,  \* Mapping<TokenId, FragmentAcknowledgement>
    \* FragmentsRound storage
    fragments,                 \* Vec<Fragment>
    fa_nft,                    \* AccountId of the FaNft contract
    mmr_root,                  \* Vec<u8>
    round_contract_owner,      \* FragmentsRound.contract_owner
    \* env().block_number() of the block the latest claim ran in
    env_block_number,
    \* history: the ids (triples) for which a claim_fragment has returned Ok
    claimed,
    \* history: the last message executed, its caller, arguments and outcome
    last

ledgerVars == <<token_owner, token_approvals, owned_tokens_count,
                operator_approvals, contract_owner, fragment_acknowledgments>>
roundVars == <<fragments, fa_nft, mmr_root, round_contract_owner>>
vars == <<token_owner, token_approvals, owned_tokens_count,
          operator_approvals, contract_owner, fragment_acknowledgments,
          fragments, fa_nft, mmr_root, round_contract_owner, env_block_number,
          claimed, last>>

\* the FaNft storage as one value
Ledger ==
    [ token_owner |-> token_owner,
      token_approvals |-> token_approvals,
      owned_tokens_count |-> owned_tokens_count,
      operator_approvals |-> operator_approvals,
      contract_owner |-> contract_owner,
      fragment_acknowledgments |-> fragment_acknowledgments ]

SetLedger(L) ==
    /\ token_owner' = L.token_owner
    /\ token_approvals' = L.token_approvals
    /\ owned_tokens_count' = L.owned_tokens_count
    /\ operator_approvals' = L.operator_approvals
    /\ contract_owner' = L.contract_owner
    /\ fragment_acknowledgments' = L.fragment_acknowledgments

\* outcome of a method: result tag, returned value, storage, events emitted
Outcome(res, ret, st, events) ==
    [res |-> res, ret |-> ret, st |-> st, events |-> events]

\* FaNft::new(): empty mappings, the deployer is the contract owner
FaNftNew(deployer) ==
    [ token_owner |-> [id \in TokenIds |-> None],
      token_approvals |-> [id \in TokenIds |-> None],
      owned_tokens_count |-> [a \in Accounts |-> None],
      operator_approvals |-> {},
      contract_owner |-> deployer,
      fragment_acknowledgments |-> [id \in TokenIds |-> None] ]

\* ---------------------------------------------------------- FaNft queries
is_owner(L, account) == L.contract_owner = account

owner_of(L, id) == L.token_owner[id]

get_approved(L, id) == L.token_approvals[id]

balance_of_or_zero(L, of) ==
    IF IsSome(L.owned_tokens_count[of]) THEN Unwrap(L.owned_tokens_count[of]) ELSE 0

balance_of(L, owner) == balance_of_or_zero(L, owner)

approved_for_all(L, owner, operator) == <<owner, operator>> \in L.operator_approvals

is_approved_for_all(L, owner, operator) == approved_for_all(L, owner, operator)

\* (mutant) any signing account passes
approved_or_owner_anyone(L, from, id, owner) == from # NullAccount

approved_or_owner(L, from, id, owner) ==
    /\ from # NullAccount
    /\ \/ from = owner
       \/ L.token_approvals[id] = Some(from)
       \/ approved_for_all(L, owner, from)

get_fragment_acknowledgment(L, id) == L.fragment_acknowledgments[id]

get_fa_info(L, id) ==
    IF IsSome(L.fragment_acknowledgments[id]) /\ IsSome(L.token_owner[id])
    THEN Some(<<Unwrap(L.fragment_acknowledgments[id]), Unwrap(L.token_owner[id])>>)
    ELSE None

\* ------------------------------------------------- FaNft private mutators
\* (mutant) the approval is left in place
clear_approval_keeps(L, id) == L

clear_approval(L, id) ==
    [L EXCEPT !.token_approvals[id] = None]

\* (mutant) the owner's count is not decremented
remove_token_from_keeps_count(L, from, id) ==
    IF ~IsSome(L.token_owner[id]) THEN [res |-> "TokenNotFound", st |-> L]
    ELSE IF ~IsSome(L.owned_tokens_count[from]) THEN [res |-> "CannotFetchValue", st |-> L]
    ELSE [res |-> "Ok", st |-> [L EXCEPT !.token_owner[id] = None]]

\* remove_token_from: result tag and the storage it leaves
remove_token_from(L, from, id) ==
    IF ~IsSome(L.token_owner[id]) THEN [res |-> "TokenNotFound", st |-> L]
    ELSE IF ~IsSome(L.owned_tokens_count[from]) THEN [res |-> "CannotFetchValue", st |-> L]
    ELSE IF Unwrap(L.owned_tokens_count[from]) = 0 THEN [res |-> "Panic", st |-> L]
    ELSE [res |-> "Ok",
          st |-> [L EXCEPT
                    !.owned_tokens_count[from] = Some(Unwrap(L.owned_tokens_count[from]) - 1),
                    !.token_owner[id] = None]]

\* (mutant) the count of an account that already has one is not incremented
add_token_to_count_once(L, to, id) ==
    IF IsSome(L.token_owner[id]) THEN [res |-> "TokenExists", st |-> L]
    ELSE IF to = NullAccount THEN [res |-> "NotAllowed", st |-> L]
    ELSE [res |-> "Ok",
          st |-> [L EXCEPT
                    !.owned_tokens_count[to] =
                        IF IsSome(L.owned_tokens_count[to]) /\ Unwrap(L.owned_tokens_count[to]) > 0
                        THEN L.owned_tokens_count[to]
                        ELSE Some(1),
                    !.token_owner[id] = Some(to)]]

\* (mutant) the recipient's count is written before the id is looked up
add_token_to_counts_first(L, to, id) ==
    LET counted == [L EXCEPT
                      !.owned_tokens_count[to] =
                          IF IsSome(L.owned_tokens_count[to])
                          THEN Some(Unwrap(L.owned_tokens_count[to]) + 1)
                          ELSE Some(1)]
    IN  IF IsSome(L.token_owner[id]) THEN [res |-> "TokenExists", st |-> counted]
        ELSE IF to = NullAccount THEN [res |-> "NotAllowed", st |-> L]
        ELSE [res |-> "Ok", st |-> [counted EXCEPT !.token_owner[id] = Some(to)]]

\* (mutant) an id that is already owned is handed to the new owner
add_token_to_overwrites(L, to, id) ==
    IF to = NullAccount THEN [res |-> "NotAllowed", st |-> L]
    ELSE [res |-> "Ok",
          st |-> [L EXCEPT
                    !.owned_tokens_count[to] =
                        IF IsSome(L.owned_tokens_count[to])
                        THEN Some(Unwrap(L.owned_tokens_count[to]) + 1)
                        ELSE Some(1),
                    !.token_owner[id] = Some(to)]]

add_token_to(L, to, id) ==
    IF IsSome(L.token_owner[id]) THEN [res |-> "TokenExists", st |-> L]
    ELSE IF to = NullAccount THEN [res |-> "NotAllowed", st |-> L]
    ELSE [res |-> "Ok",
          st |-> [L EXCEPT
                    !.owned_tokens_count[to] =
                        IF IsSome(L.owned_tokens_count[to])
                        THEN Some(Unwrap(L.owned_tokens_count[to]) + 1)
                        ELSE Some(1),
                    !.token_owner[id] = Some(to)]]


\* ------------------------------------------------------- FaNft messages
\* Each message is an operator from (storage, caller, arguments) to an
\* Outcome.  "Panic" is the failed assert!/unwrap: the call traps and the
\* storage is the one before the call.

\* ensure_owner: assert!(self.is_owner(self.env().caller()))
\* (mutant) every caller passes the check
ensure_owner_anyone(L, caller) == TRUE

ensure_owner(L, caller) == is_owner(L, caller)

\* (mutant) `from` is compared with the owner before the caller is authorized
transfer_token_from_owner_first(L, caller, from, to, id) ==
    IF ~IsSome(owner_of(L, id)) THEN Outcome("TokenNotFound", None, L, <<>>)
    ELSE IF Unwrap(owner_of(L, id)) # from THEN Outcome("NotOwner", None, L, <<>>)
    ELSE IF ~approved_or_owner(L, caller, id, Unwrap(owner_of(L, id)))
        THEN Outcome("NotApproved", None, L, <<>>)
    ELSE
        LET removed == remove_token_from(clear_approval(L, id), from, id) IN
        IF removed.res = "Panic" THEN Outcome("Panic", None, L, <<>>)
        ELSE IF removed.res # "Ok" THEN Outcome(removed.res, None, removed.st, <<>>)
        ELSE
            LET added == add_token_to(removed.st, to, id) IN
            IF added.res # "Ok" THEN Outcome(added.res, None, added.st, <<>>)
            ELSE Outcome("Ok", None, added.st, <<TransferEvent(from, to, id)>>)

\* (mutant) `from` is not compared with the owner
transfer_token_from_unchecked_from(L, caller, from, to, id) ==
    IF ~IsSome(owner_of(L, id)) THEN Outcome("TokenNotFound", None, L, <<>>)
    ELSE IF ~approved_or_owner(L, caller, id, Unwrap(owner_of(L, id)))
        THEN Outcome("NotApproved", None, L, <<>>)
    ELSE
        LET removed == remove_token_from(clear_approval(L, id), from, id) IN
        IF removed.res = "Panic" THEN Outcome("Panic", None, L, <<>>)
        ELSE IF removed.res # "Ok" THEN Outcome(removed.res, None, removed.st, <<>>)
        ELSE
            LET added == add_token_to(removed.st, to, id) IN
            IF added.res # "Ok" THEN Outcome(added.res, None, added.st, <<>>)
            ELSE Outcome("Ok", None, added.st, <<TransferEvent(from, to, id)>>)

transfer_token_from(L, caller, from, to, id) ==
    IF ~IsSome(owner_of(L, id)) THEN Outcome("TokenNotFound", None, L, <<>>)
    ELSE IF ~approved_or_owner(L, caller, id, Unwrap(owner_of(L, id)))
        THEN Outcome("NotApproved", None, L, <<>>)
    ELSE IF Unwrap(owner_of(L, id)) # from THEN Outcome("NotOwner", None, L, <<>>)
    ELSE
        LET removed == remove_token_from(clear_approval(L, id), from, id) IN
        IF removed.res = "Panic" THEN Outcome("Panic", None, L, <<>>)
        ELSE IF removed.res # "Ok" THEN Outcome(removed.res, None, removed.st, <<>>)
        ELSE
            LET added == add_token_to(removed.st, to, id) IN
            IF added.res # "Ok" THEN Outcome(added.res, None, added.st, <<>>)
            ELSE Outcome("Ok", None, added.st, <<TransferEvent(from, to, id)>>)

\* (mutant) transfer moves the token from whoever owns it
transfer_from_any_owner(L, caller, destination, id) ==
    transfer_token_from(L, caller,
                        IF IsSome(owner_of(L, id)) THEN Unwrap(owner_of(L, id)) ELSE caller,
                        destination, id)

transfer(L, caller, destination, id) ==
    transfer_token_from(L, caller, caller, destination, id)

\* (mutant) the token is handed to the caller instead of `to`
transfer_from_to_caller(L, caller, from, to, id) ==
    transfer_token_from(L, caller, from, caller, id)

transfer_from(L, caller, from, to, id) ==
    transfer_token_from(L, caller, from, to, id)

\* (mutant) the token goes to the caller instead of the `owner` argument
mint_to_caller(L, caller, fragment_cid, owner, block_number) ==
    IF ~ensure_owner(L, caller) THEN Outcome("Panic", None, L, <<>>)
    ELSE
        LET id == TokenIdFrom(fragment_cid, owner, block_number)
            stored == [L EXCEPT !.fragment_acknowledgments[id] =
                            Some(FragmentAcknowledgement(fragment_cid, block_number))]
            added == add_token_to(stored, caller, id)
        IN  IF added.res # "Ok" THEN Outcome(added.res, None, added.st, <<>>)
            ELSE Outcome("Ok", Some(id), added.st,
                         <<TransferEvent(NullAccount, owner, id)>>)

\* (mutant) the id is derived from the caller instead of the recipient
mint_id_from_caller(L, caller, fragment_cid, owner, block_number) ==
    IF ~ensure_owner(L, caller) THEN Outcome("Panic", None, L, <<>>)
    ELSE
        LET id == TokenIdFrom(fragment_cid, caller, block_number)
            stored == [L EXCEPT !.fragment_acknowledgments[id] =
                            Some(FragmentAcknowledgement(fragment_cid, block_number))]
            added == add_token_to(stored, owner, id)
        IN  IF added.res # "Ok" THEN Outcome(added.res, None, added.st, <<>>)
            ELSE Outcome("Ok", Some(id), added.st,
                         <<TransferEvent(NullAccount, owner, id)>>)

mint(L, caller, fragment_cid, owner, block_number) ==
    IF ~ensure_owner(L, caller) THEN Outcome("Panic", None, L, <<>>)
    ELSE
        LET id == TokenIdFrom(fragment_cid, owner, block_number)
            stored == [L EXCEPT !.fragment_acknowledgments[id] =
                            Some(FragmentAcknowledgement(fragment_cid, block_number))]
            added == add_token_to(stored, owner, id)
        IN  IF added.res # "Ok" THEN Outcome(added.res, None, added.st, <<>>)
            ELSE Outcome("Ok", Some(id), added.st,
                         <<TransferEvent(NullAccount, owner, id)>>)

\* (mutant) the acknowledgement payload is deleted with the token
burn_deletes_payload(L, caller, id) ==
    IF ~IsSome(L.token_owner[id]) THEN Outcome("TokenNotFound", None, L, <<>>)
    ELSE IF Unwrap(L.token_owner[id]) # caller THEN Outcome("NotOwner", None, L, <<>>)
    ELSE IF ~IsSome(L.owned_tokens_count[caller])
        THEN Outcome("CannotFetchValue", None, L, <<>>)
    ELSE IF Unwrap(L.owned_tokens_count[caller]) = 0 THEN Outcome("Panic", None, L, <<>>)
    ELSE Outcome("Ok", None,
                 [L EXCEPT
                    !.owned_tokens_count[caller] =
                        Some(Unwrap(L.owned_tokens_count[caller]) - 1),
                    !.token_owner[id] = None,
                    !.fragment_acknowledgments[id] = None],
                 <<TransferEvent(caller, NullAccount, id)>>)

\* (mutant) the approved delegate of the token may burn it too
burn_by_approved(L, caller, id) ==
    IF ~IsSome(L.token_owner[id]) THEN Outcome("TokenNotFound", None, L, <<>>)
    ELSE IF /\ Unwrap(L.token_owner[id]) # caller
            /\ L.token_approvals[id] # Some(caller)
        THEN Outcome("NotOwner", None, L, <<>>)
    ELSE LET owner == Unwrap(L.token_owner[id]) IN
        IF ~IsSome(L.owned_tokens_count[owner])
        THEN Outcome("CannotFetchValue", None, L, <<>>)
        ELSE IF Unwrap(L.owned_tokens_count[owner]) = 0 THEN Outcome("Panic", None, L, <<>>)
        ELSE Outcome("Ok", None,
                     [L EXCEPT
                        !.owned_tokens_count[owner] =
                            Some(Unwrap(L.owned_tokens_count[owner]) - 1),
                        !.token_owner[id] = None],
                     <<TransferEvent(owner, NullAccount, id)>>)

burn(L, caller, id) ==
    IF ~IsSome(L.token_owner[id]) THEN Outcome("TokenNotFound", None, L, <<>>)
    ELSE IF Unwrap(L.token_owner[id]) # caller THEN Outcome("NotOwner", None, L, <<>>)
    ELSE IF ~IsSome(L.owned_tokens_count[caller])
        THEN Outcome("CannotFetchValue", None, L, <<>>)
    ELSE IF Unwrap(L.owned_tokens_count[caller]) = 0 THEN Outcome("Panic", None, L, <<>>)
    ELSE Outcome("Ok", None,
                 [L EXCEPT
                    !.owned_tokens_count[caller] =
                        Some(Unwrap(L.owned_tokens_count[caller]) - 1),
                    !.token_owner[id] = None],
                 <<TransferEvent(caller, NullAccount, id)>>)

\* (mutant) no event when the relation already has the requested value
approve_for_all_quiet_when_unchanged(L, caller, to, approved) ==
    IF to = caller THEN Outcome("NotAllowed", None, L, <<>>)
    ELSE Outcome("Ok", None,
                 [L EXCEPT !.operator_approvals =
                        IF approved THEN @ \cup {<<caller, to>>}
                                    ELSE @ \ {<<caller, to>>}],
                 IF (<<caller, to>> \in L.operator_approvals) = approved
                 THEN <<>>
                 ELSE <<ApprovalForAllEvent(caller, to, approved)>>)

\* (mutant) the event is emitted before the operator is compared with the caller
approve_for_all_emits_first(L, caller, to, approved) ==
    IF to = caller
    THEN Outcome("NotAllowed", None, L, <<ApprovalForAllEvent(caller, to, approved)>>)
    ELSE Outcome("Ok", None,
                 [L EXCEPT !.operator_approvals =
                        IF approved THEN @ \cup {<<caller, to>>}
                                    ELSE @ \ {<<caller, to>>}],
                 <<ApprovalForAllEvent(caller, to, approved)>>)

\* (mutant) a revocation leaves the operator in place
approve_for_all_never_revokes(L, caller, to, approved) ==
    IF to = caller THEN Outcome("NotAllowed", None, L, <<>>)
    ELSE Outcome("Ok", None,
                 [L EXCEPT !.operator_approvals = @ \cup {<<caller, to>>}],
                 <<ApprovalForAllEvent(caller, to, approved)>>)

approve_for_all(L, caller, to, approved) ==
    IF to = caller THEN Outcome("NotAllowed", None, L, <<>>)
    ELSE Outcome("Ok", None,
                 [L EXCEPT !.operator_approvals =
                        IF approved THEN @ \cup {<<caller, to>>}
                                    ELSE @ \ {<<caller, to>>}],
                 <<ApprovalForAllEvent(caller, to, approved)>>)

set_approval_for_all(L, caller, to, approved) == approve_for_all(L, caller, to, approved)

\* (mutant) the approved delegate of the token may approve too
approve_for_by_delegate(L, caller, to, id) ==
    IF ~IsSome(owner_of(L, id)) THEN Outcome("TokenNotFound", None, L, <<>>)
    ELSE IF ~(Unwrap(owner_of(L, id)) = caller
              \/ L.token_approvals[id] = Some(caller)
              \/ approved_for_all(L, Unwrap(owner_of(L, id)), caller))
        THEN Outcome("NotAllowed", None, L, <<>>)
    ELSE IF to = NullAccount THEN Outcome("NotAllowed", None, L, <<>>)
    ELSE Outcome("Ok", None, [L EXCEPT !.token_approvals[id] = Some(to)],
                 <<ApprovalEvent(caller, to, id)>>)

approve_for(L, caller, to, id) ==
    IF ~IsSome(owner_of(L, id)) THEN Outcome("TokenNotFound", None, L, <<>>)
    ELSE IF ~(Unwrap(owner_of(L, id)) = caller
              \/ approved_for_all(L, Unwrap(owner_of(L, id)), caller))
        THEN Outcome("NotAllowed", None, L, <<>>)
    ELSE IF to = NullAccount THEN Outcome("NotAllowed", None, L, <<>>)
    ELSE IF IsSome(L.token_approvals[id]) THEN Outcome("CannotInsert", None, L, <<>>)
    ELSE Outcome("Ok", None, [L EXCEPT !.token_approvals[id] = Some(to)],
                 <<ApprovalEvent(caller, to, id)>>)

approve(L, caller, to, id) == approve_for(L, caller, to, id)

\* (mutant) the role stays with the caller
renounce_ownership_keeps(L, caller) ==
    IF ~ensure_owner(L, caller) THEN Outcome("Panic", None, L, <<>>)
    ELSE Outcome("Ok", None, [L EXCEPT !.contract_owner = caller], <<>>)

renounce_ownership(L, caller) ==
    IF ~ensure_owner(L, caller) THEN Outcome("Panic", None, L, <<>>)
    ELSE Outcome("Ok", None, [L EXCEPT !.contract_owner = NullAccount], <<>>)

transfer_ownership(L, caller, new_owner) ==
    IF ~ensure_owner(L, caller) THEN Outcome("Panic", None, L, <<>>)
    ELSE Outcome("Ok", None, [L EXCEPT !.contract_owner = new_owner], <<>>)

\* transfer_balance: env().transfer(to, value).unwrap(); `funded` is whether
\* the environment's transfer succeeds.  No FaNft storage is written.
transfer_balance(L, caller, to, funded) ==
    IF ~ensure_owner(L, caller) THEN Outcome("Panic", None, L, <<>>)
    ELSE IF ~funded THEN Outcome("Panic", None, L, <<>>)
    ELSE Outcome("Ok", None, L, <<>>)

\* ----------------------------------------- ckb_merkle_mountain_range
\* The MMR crate the round verifies proofs with, over symbolic hashes: a
\* hash value is the term that was hashed, so two hashes are equal exactly
\* when their pre-images are (collision freedom of Sha3_256).

\* impl From<Vec<u8>> for Leaf: Leaf(Sha3_256(data))
LeafFrom(data) == <<"H", data>>

\* impl Merge for MergeLeaves: Leaf(Sha3_256(lhs ++ rhs))
\* (mutant) the right-hand item does not enter the hash
merge_ignores_rhs(lhs, rhs) == <<"M", lhs>>

merge(lhs, rhs) == <<"M", lhs, rhs>>

\* Merge::merge_peaks, the trait's default: merge(rhs, lhs)
merge_peaks(lhs, rhs) == merge(rhs, lhs)

\* Leaf::default(): the empty byte vector
LeafDefault == <<>>

RECURSIVE BitLength(_)
BitLength(n) == IF n = 0 THEN 0 ELSE 1 + BitLength(n \div 2)

RECURSIVE CountOnes(_)
CountOnes(n) == IF n = 0 THEN 0 ELSE (n % 2) + CountOnes(n \div 2)

RECURSIVE TrailingZeros(_)
TrailingZeros(n) == IF n % 2 = 1 THEN 0 ELSE 1 + TrailingZeros(n \div 2)

all_ones(num) == num # 0 /\ num = 2^BitLength(num) - 1

jump_left(pos) == pos - (2^(BitLength(pos) - 1) - 1)

RECURSIVE JumpToAllOnes(_)
JumpToAllOnes(pos) == IF all_ones(pos) THEN pos ELSE JumpToAllOnes(jump_left(pos))

pos_height_in_tree(pos) == BitLength(JumpToAllOnes(pos + 1)) - 1

parent_offset(height) == 2 * 2^height

sibling_offset(height) == 2 * 2^height - 1

get_peak_pos_by_height(height) == 2^(height + 1) - 2

RECURSIVE LeftPeakLoop(_, _, _)
LeftPeakLoop(height, prev_pos, mmr_size) ==
    IF get_peak_pos_by_height(height) < mmr_size
    THEN LeftPeakLoop(height + 1, get_peak_pos_by_height(height), mmr_size)
    ELSE <<height - 1, prev_pos>>

\* (height, pos) of the leftmost peak
left_peak_height_pos(mmr_size) == LeftPeakLoop(1, 0, mmr_size)

RECURSIVE RightPeakLoop(_, _, _)
RightPeakLoop(height, pos, mmr_size) ==
    IF pos > mmr_size - 1
    THEN IF height = 0 THEN None
         ELSE RightPeakLoop(height - 1, pos - parent_offset(height - 1), mmr_size)
    ELSE Some(<<height, pos>>)

get_right_peak(height, pos, mmr_size) ==
    RightPeakLoop(height, pos + sibling_offset(height), mmr_size)

RECURSIVE PeaksLoop(_, _, _)
PeaksLoop(height, pos, mmr_size) ==
    IF height = 0 THEN <<>>
    ELSE LET peak == get_right_peak(height, pos, mmr_size) IN
         IF peak = None THEN <<>>
         ELSE <<Unwrap(peak)[2]>> \o PeaksLoop(Unwrap(peak)[1], Unwrap(peak)[2], mmr_size)

\* positions of the peaks, left to right
get_peaks(mmr_size) ==
    LET left == left_peak_height_pos(mmr_size)
    IN  <<left[2]>> \o PeaksLoop(left[1], left[2], mmr_size)

leaf_index_to_mmr_size(index) == 2 * (index + 1) - CountOnes(index + 1)

leaf_index_to_pos(index) ==
    leaf_index_to_mmr_size(index) - TrailingZeros(index + 1) - 1

\* bagging_peaks_hashes: right to left, merge_peaks(right, left)
RECURSIVE BagLoop(_)
BagLoop(peaks_hashes) ==
    IF Len(peaks_hashes) > 1
    THEN BagLoop(SubSeq(peaks_hashes, 1, Len(peaks_hashes) - 2)
                 \o <<merge_peaks(peaks_hashes[Len(peaks_hashes)],
                                  peaks_hashes[Len(peaks_hashes) - 1])>>)
    ELSE peaks_hashes

bagging_peaks_hashes(peaks_hashes) ==
    IF BagLoop(peaks_hashes) = <<>> THEN [res |-> "CorruptedProof", item |-> LeafDefault]
    ELSE [res |-> "Ok", item |-> BagLoop(peaks_hashes)[1]]

\* --- MemMMR: the store after pushing `leaves` (a sequence of Leaf items)
mmr_size_of(leaves) ==
    IF Len(leaves) = 0 THEN 0 ELSE leaf_index_to_mmr_size(Len(leaves) - 1)

\* the item stored at position pos
RECURSIVE NodeAt(_, _)
NodeAt(leaves, pos) ==
    LET height == pos_height_in_tree(pos) IN
    IF height = 0
    THEN leaves[(CHOOSE i \in 0..(Len(leaves) - 1) : leaf_index_to_pos(i) = pos) + 1]
    ELSE merge(NodeAt(leaves, pos - 2^height), NodeAt(leaves, pos - 1))

\* MMR::get_root
get_root(leaves) ==
    IF mmr_size_of(leaves) = 1 THEN NodeAt(leaves, 0)
    ELSE LET peaks == get_peaks(mmr_size_of(leaves))
         IN  bagging_peaks_hashes([k \in 1..Len(peaks) |-> NodeAt(leaves, peaks[k])]).item

\* gen_proof_for_peak for one leaf position: the sibling path up to the peak
RECURSIVE SiblingPath(_, _, _, _)
SiblingPath(leaves, pos, height, peak_pos) ==
    IF pos = peak_pos THEN <<>>
    ELSE LET right == pos_height_in_tree(pos + 1) > height
             sib_pos == IF right THEN pos - sibling_offset(height)
                                 ELSE pos + sibling_offset(height)
             parent_pos == IF right THEN pos + 1 ELSE pos + parent_offset(height)
         IN  <<NodeAt(leaves, sib_pos)>>
             \o (IF parent_pos < peak_pos
                 THEN SiblingPath(leaves, parent_pos, height + 1, peak_pos)
                 ELSE <<>>)

\* the loop over the peaks of gen_proof: acc = [proof, track, pending]
RECURSIVE GenProofLoop(_, _, _, _, _)
GenProofLoop(leaves, pos, peaks, k, acc) ==
    IF k > Len(peaks) THEN acc
    ELSE LET here == acc.pending /\ pos <= peaks[k] IN
         GenProofLoop(leaves, pos, peaks, k + 1,
            IF here
            THEN [proof |-> acc.proof \o SiblingPath(leaves, pos, 0, peaks[k]),
                  track |-> 0, pending |-> FALSE]
            ELSE [proof |-> Append(acc.proof, NodeAt(leaves, peaks[k])),
                  track |-> acc.track + 1, pending |-> acc.pending])

\* MMR::gen_proof(vec![pos]): Proof { mmr_size, proof }
gen_proof(leaves, pos) ==
    LET acc == GenProofLoop(leaves, pos, get_peaks(mmr_size_of(leaves)), 1,
                            [proof |-> <<>>, track |-> 0, pending |-> TRUE])
        n == Len(acc.proof)
    IN  [ mmr_size |-> mmr_size_of(leaves),
          proof |-> IF acc.track > 1
                    THEN Append(SubSeq(acc.proof, 1, n - acc.track),
                                bagging_peaks_hashes(
                                    SubSeq(acc.proof, n - acc.track + 1, n)).item)
                    ELSE acc.proof ]

\* --- MerkleProof::verify for the one leaf claim_fragment passes
\* calculate_peak_root: climb from (pos, item, height) to peak_pos, taking
\* one proof item per level.  [res, item, rest]
RECURSIVE calculate_peak_root(_, _, _, _, _)
calculate_peak_root(pos, item, height, peak_pos, proof_iter) ==
    IF pos = peak_pos THEN [res |-> "Ok", item |-> item, rest |-> proof_iter]
    ELSE IF proof_iter = <<>>
        THEN [res |-> "CorruptedProof", item |-> item, rest |-> proof_iter]
    ELSE LET right == pos_height_in_tree(pos + 1) > height
             parent_pos == IF right THEN pos + 1 ELSE pos + parent_offset(height)
             parent_item == IF right THEN merge(Head(proof_iter), item)
                                     ELSE merge(item, Head(proof_iter))
         IN  IF parent_pos <= peak_pos
             THEN calculate_peak_root(parent_pos, parent_item, height + 1, peak_pos,
                                      Tail(proof_iter))
             ELSE [res |-> "CorruptedProof", item |-> item, rest |-> Tail(proof_iter)]

\* the loop over the peaks of calculate_peaks_hashes:
\* acc = [res, hashes, rest, pending, stop]
RECURSIVE PeaksHashesLoop(_, _, _, _, _)
PeaksHashesLoop(pos, item, peaks, k, acc) ==
    IF k > Len(peaks) \/ acc.stop \/ acc.res # "Ok" THEN acc
    ELSE LET here == acc.pending /\ pos <= peaks[k] IN
         PeaksHashesLoop(pos, item, peaks, k + 1,
            IF here /\ pos = peaks[k]
            THEN [acc EXCEPT !.hashes = Append(@, item), !.pending = FALSE]
            ELSE IF ~here
            THEN IF acc.rest # <<>>
                 THEN [acc EXCEPT !.hashes = Append(@, Head(acc.rest)),
                                  !.rest = Tail(acc.rest)]
                 ELSE [acc EXCEPT !.stop = TRUE]
            ELSE LET root == calculate_peak_root(pos, item, 0, peaks[k], acc.rest)
                 IN  [acc EXCEPT !.res = root.res, !.hashes = Append(@, root.item),
                                 !.rest = root.rest, !.pending = FALSE])

calculate_peaks_hashes(pos, item, mmr_size, proof_iter) ==
    IF mmr_size = 1 /\ pos = 0 THEN [res |-> "Ok", hashes |-> <<item>>]
    ELSE LET acc == PeaksHashesLoop(pos, item, get_peaks(mmr_size), 1,
                        [res |-> "Ok", hashes |-> <<>>, rest |-> proof_iter,
                         pending |-> TRUE, stop |-> FALSE])
         IN  IF acc.res # "Ok" THEN [res |-> acc.res, hashes |-> <<>>]
             \* ensure nothing left in leaves
             ELSE IF acc.pending THEN [res |-> "CorruptedProof", hashes |-> <<>>]
             \* the bagged right-hand peaks, then nothing may be left
             ELSE IF Len(acc.rest) > 1 THEN [res |-> "CorruptedProof", hashes |-> <<>>]
             ELSE [res |-> "Ok", hashes |-> acc.hashes \o acc.rest]

calculate_root(pos, item, mmr_size, proof_iter) ==
    LET peaks_hashes == calculate_peaks_hashes(pos, item, mmr_size, proof_iter)
    IN  IF peaks_hashes.res # "Ok" THEN [res |-> peaks_hashes.res, item |-> LeafDefault]
        ELSE bagging_peaks_hashes(peaks_hashes.hashes)

\* MerkleProof::verify(root, vec![(pos, item)]): "true", "false" or "Err"
verify(mmr_proof, root, pos, item) ==
    LET calculated == calculate_root(pos, item, mmr_proof.mmr_size, mmr_proof.proof)
    IN  IF calculated.res # "Ok" THEN "Err"
        ELSE IF calculated.item = root THEN "true" ELSE "false"

\* ------------------------------------------------------ FragmentsRound
\* Fragment { cid, mmr_pos, release_block }
Fragment(cid, mmr_pos, release_block) ==
    [cid |-> cid, mmr_pos |-> mmr_pos, release_block |-> release_block]

\* the FragmentsRound storage as one value
Round ==
    [ fragments |-> fragments, fa_nft |-> fa_nft, mmr_root |-> mmr_root,
      contract_owner |-> round_contract_owner ]

\* FragmentsRound::new(fragments, mmr_root, code_hash) called by `deployer`
FragmentsRoundNew(frags, root, deployer) ==
    [ fragments |-> frags, fa_nft |-> FaNftAccount, mmr_root |-> root,
      contract_owner |-> deployer ]

\* get_fragment: the first fragment with that cid, or NotFound
get_fragment(R, cid) ==
    IF \E k \in 1..Len(R.fragments) : R.fragments[k].cid = cid
    THEN Some(R.fragments[CHOOSE k \in 1..Len(R.fragments) :
                    /\ R.fragments[k].cid = cid
                    /\ \A j \in 1..(k - 1) : R.fragments[j].cid # cid])
    ELSE None

get_fragments(R) == R.fragments

\* Error::FaNFT(e)
FaNFT(e) ==
    CASE e = "NotOwner" -> "FaNFT(NotOwner)"
      [] e = "NotApproved" -> "FaNFT(NotApproved)"
      [] e = "TokenExists" -> "FaNFT(TokenExists)"
      [] e = "TokenNotFound" -> "FaNFT(TokenNotFound)"
      [] e = "CannotInsert" -> "FaNFT(CannotInsert)"
      [] e = "CannotFetchValue" -> "FaNFT(CannotFetchValue)"
      [] e = "NotAllowed" -> "FaNFT(NotAllowed)"
      [] e = "NotContractOwner" -> "FaNFT(NotContractOwner)"
      [] OTHER -> "FaNFT(TransferFailed)"

\* (mutant) the ledger's error is dropped
mint_fragment_acknowledgement_swallows(R, L, caller, bn, cid) ==
    LET minted == mint(L, RoundAccount, cid, caller, bn) IN
    IF minted.res = "Panic" THEN Outcome("Panic", None, L, <<>>)
    ELSE Outcome("Ok", None, minted.st, minted.events)

\* (mutant) the token is minted to the round's owner instead of the caller
mint_fragment_acknowledgement_to_owner(R, L, caller, bn, cid) ==
    LET minted == mint(L, RoundAccount, cid, R.contract_owner, bn) IN
    IF minted.res = "Panic" THEN Outcome("Panic", None, L, <<>>)
    ELSE IF minted.res # "Ok" THEN Outcome(FaNFT(minted.res), None, minted.st, minted.events)
    ELSE Outcome("Ok", None, minted.st, minted.events)

\* mint_fragment_acknowledgement: the round calls fa_nft.mint(cid, caller,
\* block_number); the ledger sees the round's account as its caller.  A trap
\* in the callee traps the whole call.
mint_fragment_acknowledgement(R, L, caller, bn, cid) ==
    LET minted == mint(L, RoundAccount, cid, caller, bn) IN
    IF minted.res = "Panic" THEN Outcome("Panic", None, L, <<>>)
    ELSE IF minted.res # "Ok" THEN Outcome(FaNFT(minted.res), None, minted.st, minted.events)
    ELSE Outcome("Ok", None, minted.st, minted.events)

\* (mutant) a fragment is claimable only from its release block on
claim_fragment_after_release(R, L, caller, bn, proof, cid, hash) ==
    IF ~IsSome(get_fragment(R, cid)) THEN Outcome("NotFound", None, L, <<>>)
    ELSE IF bn < Unwrap(get_fragment(R, cid)).release_block
        THEN Outcome("NotFound", None, L, <<>>)
    ELSE LET verifies == verify(proof, R.mmr_root,
                                Unwrap(get_fragment(R, cid)).mmr_pos, LeafFrom(hash))
         IN  IF verifies = "Err" THEN Outcome("CantBeProven", None, L, <<>>)
             ELSE IF verifies # "true" THEN Outcome("ProofInvalid", None, L, <<>>)
             ELSE mint_fragment_acknowledgement(R, L, caller, bn, cid)

\* (mutant) the verifier's `false` is not checked
claim_fragment_unchecked(R, L, caller, bn, proof, cid, hash) ==
    IF ~IsSome(get_fragment(R, cid)) THEN Outcome("NotFound", None, L, <<>>)
    ELSE LET verifies == verify(proof, R.mmr_root,
                                Unwrap(get_fragment(R, cid)).mmr_pos, LeafFrom(hash))
         IN  IF verifies = "Err" THEN Outcome("CantBeProven", None, L, <<>>)
             ELSE mint_fragment_acknowledgement(R, L, caller, bn, cid)

\* (mutant) the proof is verified before the fragment is looked up (at
\* position 0 when there is no such fragment)
claim_fragment_verifies_first(R, L, caller, bn, proof, cid, hash) ==
    LET verifies == verify(proof, R.mmr_root,
                           IF IsSome(get_fragment(R, cid))
                           THEN Unwrap(get_fragment(R, cid)).mmr_pos ELSE 0,
                           LeafFrom(hash))
    IN  IF verifies = "Err" THEN Outcome("CantBeProven", None, L, <<>>)
        ELSE IF verifies # "true" THEN Outcome("ProofInvalid", None, L, <<>>)
        ELSE IF ~IsSome(get_fragment(R, cid)) THEN Outcome("NotFound", None, L, <<>>)
        ELSE mint_fragment_acknowledgement(R, L, caller, bn, cid)

\* (mutant) a verifier error is reported as an invalid proof
claim_fragment_one_failure(R, L, caller, bn, proof, cid, hash) ==
    IF ~IsSome(get_fragment(R, cid)) THEN Outcome("NotFound", None, L, <<>>)
    ELSE LET verifies == verify(proof, R.mmr_root,
                                Unwrap(get_fragment(R, cid)).mmr_pos, LeafFrom(hash))
         IN  IF verifies # "true" THEN Outcome("ProofInvalid", None, L, <<>>)
             ELSE mint_fragment_acknowledgement(R, L, caller, bn, cid)

\* claim_fragment(proof, cid, hash) by `caller` in block `bn`
claim_fragment(R, L, caller, bn, proof, cid, hash) ==
    IF ~IsSome(get_fragment(R, cid)) THEN Outcome("NotFound", None, L, <<>>)
    ELSE LET verifies == verify(proof, R.mmr_root,
                                Unwrap(get_fragment(R, cid)).mmr_pos, LeafFrom(hash))
         IN  IF verifies = "Err" THEN Outcome("CantBeProven", None, L, <<>>)
             ELSE IF verifies # "true" THEN Outcome("ProofInvalid", None, L, <<>>)
             ELSE mint_fragment_acknowledgement(R, L, caller, bn, cid)

claim_reward(R, L, caller) == Outcome("Ok", None, L, <<>>)

\* impl Ownable for FragmentsRound: is_owner
round_is_owner(R, account) == R.contract_owner = account

\* impl Ownable for FragmentsRound: [res, st] with st the round storage
\* (mutant) renouncing also forgets the committed root
round_renounce_ownership_wipes(R, caller) ==
    IF R.contract_owner # caller THEN [res |-> "Panic", st |-> R]
    ELSE [res |-> "Ok", st |-> [R EXCEPT !.contract_owner = NullAccount, !.mmr_root = <<>>]]

round_renounce_ownership(R, caller) ==
    IF R.contract_owner # caller THEN [res |-> "Panic", st |-> R]
    ELSE [res |-> "Ok", st |-> [R EXCEPT !.contract_owner = NullAccount]]

round_transfer_ownership(R, caller, new_owner) ==
    IF R.contract_owner # caller THEN [res |-> "Panic", st |-> R]
    ELSE [res |-> "Ok", st |-> [R EXCEPT !.contract_owner = new_owner]]

\* ---- the round as it is built off chain (tests::it_can_claim_fragment_..)
\* the secret (hash pre-image) of element i
SecretOf(i) == i

\* one leaf more than the fragments need on either side
RoundLeaves == [i \in 1..(MaxCid + 3) |-> LeafFrom(SecretOf(i - 1))]

\* release_block of the fragments (tests::mock_fragment)
ReleaseBlock == 11

\* fragment cid sits at leaf cid + 1
RoundFragments ==
    [k \in 1..(MaxCid + 1) |-> Fragment(k - 1, leaf_index_to_pos(k), ReleaseBlock)]

\* tests::mock_proof
mock_proof == [mmr_size |-> 1, proof |-> <<LeafDefault>>]

\* the proofs a caller submits: the generated proof of every leaf, the first
\* fragment's proof with an item replaced, with an item dropped, with every
\* item dropped, and the mock
ProofArgs ==
    { gen_proof(RoundLeaves, leaf_index_to_pos(i)) : i \in 0..(MaxCid + 1) }
    \cup { [gen_proof(RoundLeaves, leaf_index_to_pos(1)) EXCEPT !.proof[1] = LeafDefault],
           [gen_proof(RoundLeaves, leaf_index_to_pos(1)) EXCEPT !.proof = Tail(@)],
           [gen_proof(RoundLeaves, leaf_index_to_pos(1)) EXCEPT !.proof = <<>>],
           mock_proof }

\* the secrets a caller submits: every leaf's
SecretArgs == { SecretOf(i) : i \in 0..(MaxCid + 1) }

\* the cids a caller names: the round's and one it does not hold
CidArgs == 0..(MaxCid + 1)

\* ------------------------------------------------------------ the steps
NoArgs ==
    [ from |-> NullAccount, to |-> NullAccount, id |-> 0, cid |-> 0, bn |-> 0,
      approved |-> FALSE, proof |-> mock_proof, hash |-> 0 ]

\* the record kept of a message: unused argument slots hold NoArgs' values
Call(op, caller, a, o) ==
    [ op |-> op, caller |-> caller, from |-> a.from, to |-> a.to, id |-> a.id,
      cid |-> a.cid, bn |-> a.bn, approved |-> a.approved,
      proof |-> a.proof, hash |-> a.hash,
      res |-> o.res, ret |-> o.ret, events |-> o.events ]

\* the storage is the value L
LedgerIs(L) ==
    /\ token_owner = L.token_owner
    /\ token_approvals = L.token_approvals
    /\ owned_tokens_count = L.owned_tokens_count
    /\ operator_approvals = L.operator_approvals
    /\ contract_owner = L.contract_owner
    /\ fragment_acknowledgments = L.fragment_acknowledgments

RoundIs(R) ==
    /\ fragments = R.fragments
    /\ fa_nft = R.fa_nft
    /\ mmr_root = R.mmr_root
    /\ round_contract_owner = R.contract_owner

SetRound(R) ==
    /\ fragments' = R.fragments
    /\ fa_nft' = R.fa_nft
    /\ mmr_root' = R.mmr_root
    /\ round_contract_owner' = R.contract_owner

\* the ledger deployed on its own, as in its unit tests: Alice deploys it
\* (the round's storage is inert in this specification)
Init ==
    /\ LedgerIs(FaNftNew(Alice))
    /\ RoundIs(FragmentsRoundNew(RoundFragments, get_root(RoundLeaves), Alice))
    /\ env_block_number = 0
    /\ claimed = {}
    /\ last = Call("new", Alice, NoArgs, Outcome("Ok", None, FaNftNew(Alice), <<>>))

\* the composed system: Alice deploys the round, whose constructor
\* instantiates the ledger, so the ledger's deployer is the round
InitRound ==
    /\ LedgerIs(FaNftNew(RoundAccount))
    /\ RoundIs(FragmentsRoundNew(RoundFragments, get_root(RoundLeaves), Alice))
    /\ env_block_number = 0
    /\ claimed = {}
    /\ last = Call("new", Alice, NoArgs, Outcome("Ok", None, FaNftNew(RoundAccount), <<>>))

\* a ledger message ran: the storage is its outcome's, and `last` records it
Ran(op, caller, a, o) ==
    /\ SetLedger(o.st)
    /\ last' = Call(op, caller, a, o)
    /\ UNCHANGED <<fragments, fa_nft, mmr_root, round_contract_owner, env_block_number,
                   claimed>>

Mint ==
    \E caller \in Callers, cid \in FragmentCids, owner \in Accounts, bn \in BlockNumbers :
        Ran("mint", caller,
            [NoArgs EXCEPT !.to = owner, !.cid = cid, !.bn = bn,
                           !.id = TokenIdFrom(cid, owner, bn)],
            mint(Ledger, caller, cid, owner, bn))

Burn ==
    \E caller \in Callers, id \in IdArgs :
        Ran("burn", caller, [NoArgs EXCEPT !.id = id], burn(Ledger, caller, id))

Transfer ==
    \E caller \in Callers, destination \in Accounts, id \in IdArgs :
        Ran("transfer", caller,
            [NoArgs EXCEPT !.from = caller, !.to = destination, !.id = id],
            transfer(Ledger, caller, destination, id))

TransferFrom ==
    \E caller \in Callers, from \in Callers, to \in Accounts, id \in IdArgs :
        Ran("transfer_from", caller,
            [NoArgs EXCEPT !.from = from, !.to = to, !.id = id],
            transfer_from(Ledger, caller, from, to, id))

Approve ==
    \E caller \in Callers, to \in Accounts, id \in IdArgs :
        Ran("approve", caller, [NoArgs EXCEPT !.to = to, !.id = id],
            approve(Ledger, caller, to, id))

SetApprovalForAll ==
    \E caller \in Callers, to \in Callers, approved \in BOOLEAN :
        Ran("set_approval_for_all", caller,
            [NoArgs EXCEPT !.to = to, !.approved = approved],
            set_approval_for_all(Ledger, caller, to, approved))

RenounceOwnership ==
    \E caller \in Callers :
        Ran("renounce_ownership", caller, NoArgs, renounce_ownership(Ledger, caller))

TransferOwnership ==
    \E caller \in Callers, new_owner \in Accounts :
        Ran("transfer_ownership", caller, [NoArgs EXCEPT !.to = new_owner],
            transfer_ownership(Ledger, caller, new_owner))

TransferBalance ==
    \E caller \in Callers, funded \in BOOLEAN :
        Ran("transfer_balance", caller, [NoArgs EXCEPT !.to = Bob, !.approved = funded],
            transfer_balance(Ledger, caller, Bob, funded))

\* a claim runs in a block that is not older than the latest claim's
ClaimFragment ==
    \E caller \in Callers, bn \in BlockNumbers, proof \in ProofArgs,
       cid \in CidArgs, hash \in SecretArgs :
        /\ bn >= env_block_number
        /\ LET o == claim_fragment(Round, Ledger, caller, bn, proof, cid, hash) IN
            /\ SetLedger(o.st)
            /\ last' = Call("claim_fragment", caller,
                            [NoArgs EXCEPT !.cid = cid, !.bn = bn, !.proof = proof,
                                           !.hash = hash,
                                           !.id = TokenIdFrom(cid % (MaxCid + 1), caller, bn)],
                            o)
            /\ claimed' = IF o.res = "Ok"
                          THEN claimed \cup {TokenIdFrom(cid, caller, bn)}
                          ELSE claimed
        /\ env_block_number' = bn
        /\ UNCHANGED roundVars

ClaimReward ==
    \E caller \in Callers :
        LET o == claim_reward(Round, Ledger, caller) IN
            /\ SetLedger(o.st)
            /\ last' = Call("claim_reward", caller, NoArgs, o)
            /\ UNCHANGED <<fragments, fa_nft, mmr_root, round_contract_owner,
                           env_block_number, claimed>>

GetFragments ==
    \E caller \in Callers :
        /\ last' = Call("get_fragments", caller, NoArgs,
                        Outcome("Ok", get_fragments(Round), Ledger, <<>>))
        /\ UNCHANGED <<ledgerVars, roundVars, env_block_number, claimed>>

RoundRenounceOwnership ==
    \E caller \in Callers :
        LET r == round_renounce_ownership(Round, caller) IN
            /\ SetRound(r.st)
            /\ last' = Call("round.renounce_ownership", caller, NoArgs,
                            Outcome(r.res, None, Ledger, <<>>))
            /\ UNCHANGED <<ledgerVars, env_block_number, claimed>>

RoundTransferOwnership ==
    \E caller \in Callers, new_owner \in Accounts :
        LET r == round_transfer_ownership(Round, caller, new_owner) IN
            /\ SetRound(r.st)
            /\ last' = Call("round.transfer_ownership", caller,
                            [NoArgs EXCEPT !.to = new_owner],
                            Outcome(r.res, None, Ledger, <<>>))
            /\ UNCHANGED <<ledgerVars, env_block_number, claimed>>

Next ==
    \/ Mint
    \/ Burn
    \/ Transfer
    \/ TransferFrom
    \/ Approve
    \/ SetApprovalForAll
    \/ RenounceOwnership
    \/ TransferOwnership
    \/ TransferBalance

Spec == Init /\ [][Next]_vars

\* the composed system: the ledger's messages called by external accounts
\* and the round's claim messages
NextRound ==
    \/ Next
    \/ ClaimFragment
    \/ ClaimReward

SpecRound == InitRound /\ [][NextRound]_vars

\* the composed system driven through the round's messages alone (the
\* round's Ownable messages read and write nothing but its contract_owner)
NextRoundOps ==
    \/ ClaimFragment
    \/ ClaimReward
    \/ GetFragments
    \/ RoundRenounceOwnership
    \/ RoundTransferOwnership

SpecRoundOps == InitRound /\ [][NextRoundOps]_vars

\* ---- the MMR on its own: built off chain from a sequence of elements,
\* then proofs are generated and verified (tests::it_can_claim_fragment_..)
\* the sequences of elements pushed
SecretSeqs == UNION { [1..n -> 0..MaxSecret] : n \in 1..MaxLeaves }

\* the leaves pushed for the elements s
LeavesOf(s) == [k \in 1..Len(s) |-> LeafFrom(s[k])]

\* the fragment of leaf k records the element pushed for it as its cid
MmrLeaves == [k \in 1..Len(fragments) |-> LeafFrom(fragments[k].cid)]

\* the values an item of a proof is replaced by
ReplacementItems ==
    {LeafDefault, merge(LeafFrom(0), LeafFrom(1))}
        \cup { LeafFrom(h) : h \in 0..(MaxSecret + 1) }

\* an MMR of the elements s, its root committed in a round whose fragments
\* are the leaves in order
InitMmr ==
    /\ LedgerIs(FaNftNew(Alice))
    /\ \E s \in SecretSeqs :
          RoundIs(FragmentsRoundNew(
                    [k \in 1..Len(s) |-> Fragment(s[k], leaf_index_to_pos(k - 1), ReleaseBlock)],
                    get_root(LeavesOf(s)), Alice))
    /\ env_block_number = 0
    /\ claimed = {}
    /\ last = Call("push", Alice, NoArgs, Outcome("Ok", None, FaNftNew(Alice), <<>>))

\* verify(root, (pos, Leaf::from(hash)), proof) ran; `last` records it
MmrVerified(k, proof, hash) ==
    /\ last' = Call("verify", Alice,
                    [NoArgs EXCEPT !.cid = fragments[k].cid, !.id = fragments[k].mmr_pos,
                                   !.proof = proof, !.hash = hash],
                    Outcome(verify(proof, mmr_root, fragments[k].mmr_pos, LeafFrom(hash)),
                            None, Ledger, <<>>))
    /\ UNCHANGED <<ledgerVars, roundVars, env_block_number, claimed>>

\* the generated proof of a leaf with the leaf's own element
MmrVerifyGenuine ==
    \E k \in 1..Len(fragments) :
        MmrVerified(k, gen_proof(MmrLeaves, fragments[k].mmr_pos), fragments[k].cid)

\* the generated proof with another element claimed for the leaf
MmrVerifyOtherLeaf ==
    \E k \in 1..Len(fragments), h \in 0..(MaxSecret + 1) :
        /\ h # fragments[k].cid
        /\ MmrVerified(k, gen_proof(MmrLeaves, fragments[k].mmr_pos), h)

\* the generated proof with one item replaced by another value
MmrVerifyOtherItem ==
    \E k \in 1..Len(fragments), v \in ReplacementItems :
        LET proof == gen_proof(MmrLeaves, fragments[k].mmr_pos) IN
        \E j \in 1..Len(proof.proof) :
            /\ v # proof.proof[j]
            /\ MmrVerified(k, [proof EXCEPT !.proof[j] = v], fragments[k].cid)

NextMmr ==
    \/ MmrVerifyGenuine
    \/ MmrVerifyOtherLeaf
    \/ MmrVerifyOtherItem

SpecMmr == InitMmr /\ [][NextMmr]_vars

\* ================================================================ claims
TransferOps == {"transfer", "transfer_from"}

\* the errors of fa_nft::Error a message returns as Err(..)
LedgerErrors ==
    { "NotOwner", "NotApproved", "TokenExists", "TokenNotFound", "CannotInsert",
      "CannotFetchValue", "NotAllowed", "NotContractOwner", "TransferFailed" }

\* the number of token ids whose current owner is account a
OwnedBy(a) == Cardinality({ id \in TokenIds : token_owner[id] = Some(a) })

\* C1: in every reachable state, for every account a, balance_of(a) equals
\* the number of token ids whose owner in token_owner is a.
C1_BalanceMatchesOwnership ==
    \A a \in Accounts : balance_of(Ledger, a) = OwnedBy(a)

\* C1 witness: an account holds two tokens after a transfer moved one to it
C1_Witness ==
    /\ last.op \in TransferOps
    /\ last.res = "Ok"
    /\ OwnedBy(last.to) = 2

\* C2 (as claimed): an ownership entry appears only by a successful mint of
\* that id and disappears only by a successful burn of that id; no other
\* call, Ok or error, creates or removes one.
C2_OwnershipOnlyByMintAndBurn ==
    [][ \A id \in TokenIds :
          /\ (~IsSome(token_owner[id]) /\ IsSome(token_owner'[id]))
                => (last'.op = "mint" /\ last'.res = "Ok" /\ last'.ret = Some(id))
          /\ (IsSome(token_owner[id]) /\ ~IsSome(token_owner'[id]))
                => (last'.op = "burn" /\ last'.res = "Ok" /\ last'.id = id)
          /\ (last'.op = "mint" /\ last'.res = "Ok" /\ last'.ret = Some(id))
                => IsSome(token_owner'[id])
          /\ (last'.op = "burn" /\ last'.res = "Ok" /\ last'.id = id)
                => ~IsSome(token_owner'[id]) ]_vars

\* C3: a transfer or transfer_from returns Ok only if the caller is the
\* owner of the id, its approved delegate or an operator of its owner; a
\* caller that is none of these gets NotApproved, and the owner map and the
\* balances are unchanged.
C3_TransferNeedsAuthorization ==
    [][ last'.op \in TransferOps =>
          LET id == last'.id
              caller == last'.caller
              authorized ==
                  /\ IsSome(token_owner[id])
                  /\ \/ token_owner[id] = Some(caller)
                     \/ token_approvals[id] = Some(caller)
                     \/ <<Unwrap(token_owner[id]), caller>> \in operator_approvals
          IN  /\ last'.res = "Ok" => authorized
              /\ (IsSome(token_owner[id]) /\ ~authorized) =>
                    /\ last'.res = "NotApproved"
                    /\ token_owner' = token_owner
                    /\ owned_tokens_count' = owned_tokens_count ]_vars

\* C3 witness: an account that is neither owner, delegate nor operator was
\* refused the transfer of an existing token
C3_Witness ==
    /\ last.op = "transfer_from"
    /\ last.res = "NotApproved"
    /\ IsSome(token_owner[last.id])
    /\ token_owner[last.id] # Some(last.caller)

\* C4 (as claimed): whenever transfer or transfer_from returns an error, for
\* every caller, from, destination (the null account included) and id, all
\* persisted ledger state equals its value before the call.
C4_FailedTransferChangesNothing ==
    [][ (last'.op \in TransferOps /\ last'.res \in LedgerErrors)
          => UNCHANGED ledgerVars ]_vars

\* C5 (as claimed): whenever mint returns an error (TokenExists, NotAllowed)
\* no persisted state is changed, fragment_acknowledgments included.
C5_FailedMintChangesNothing ==
    [][ (last'.op = "mint" /\ last'.res \in LedgerErrors)
          => UNCHANGED ledgerVars ]_vars

\* the fragment a claim names is known and its proof verifies as true against
\* the stored mmr_root at the fragment's mmr_pos with leaf = hash(secret)
ProofVerifies(c) ==
    /\ \E k \in 1..Len(fragments) : fragments[k].cid = c.cid
    /\ verify(c.proof, mmr_root,
              fragments[CHOOSE k \in 1..Len(fragments) : fragments[k].cid = c.cid].mmr_pos,
              LeafFrom(c.hash)) = "true"

\* C6: in the composed system an ownership entry is created only by a
\* claim_fragment whose proof verified as true; a claim whose verification
\* is false or fails leaves the ledger untouched with a round-level error,
\* and a direct mint by an external account aborts.
C6_MintOnlyThroughVerifiedClaim ==
    [][ /\ \A id \in TokenIds :
              (~IsSome(token_owner[id]) /\ IsSome(token_owner'[id]))
                => /\ last'.op = "claim_fragment"
                   /\ last'.res = "Ok"
                   /\ last'.id = id
                   /\ ProofVerifies(last')
        /\ (last'.op = "claim_fragment" /\ ~ProofVerifies(last'))
              => /\ last'.res \in {"NotFound", "CantBeProven", "ProofInvalid"}
                 /\ UNCHANGED ledgerVars
        /\ last'.op = "mint"
              => (last'.res = "Panic" /\ UNCHANGED ledgerVars) ]_vars

\* C6 witness: a verified claim has minted the caller's token
C6_Witness ==
    /\ last.op = "claim_fragment"
    /\ last.res = "Ok"
    /\ ProofVerifies(last)
    /\ token_owner[last.id] = Some(last.caller)

\* C7 (as claimed): for a fixed (cid, caller, block number) triple, once a
\* claim has returned Ok every later claim with a correct secret and a valid
\* proof returns FaNFT(TokenExists), whatever ledger operations (transfer,
\* approve, burn) happened in between.
C7_ClaimSucceedsOnce ==
    [][ (last'.op = "claim_fragment" /\ ProofVerifies(last') /\ last'.id \in claimed)
          => last'.res = "FaNFT(TokenExists)" ]_vars

\* C7 (amended): a claim with a correct secret and a valid proof returns Ok
\* exactly when the id derived from its triple is not in the ownership map
\* and FaNFT(TokenExists) exactly when it is: a repeated claim is refused for
\* as long as the first token exists, whoever owns it.
C7_ClaimSucceedsWhileIdIsFree ==
    [][ (last'.op = "claim_fragment" /\ ProofVerifies(last'))
          => /\ last'.res = IF IsSome(token_owner[last'.id])
                            THEN "FaNFT(TokenExists)" ELSE "Ok"
             /\ (last'.res = "Ok" /\ last'.id \in claimed)
                    => ~IsSome(token_owner[last'.id]) ]_vars

\* C7 witness: a repeated claim of a triple was refused although the caller
\* no longer owns the token (it was transferred in between)
C7_Witness ==
    /\ last.op = "claim_fragment"
    /\ last.res = "FaNFT(TokenExists)"
    /\ last.id \in claimed
    /\ token_owner[last.id] # Some(last.caller)

\* C8: after any successful transfer or transfer_from of id, by the owner,
\* the delegate or an operator, get_approved(id) is None.
C8_TransferClearsApproval ==
    [][ (last'.op \in TransferOps /\ last'.res = "Ok")
          => get_approved(Ledger', last'.id) = None ]_vars

\* C8 witness: the approved delegate (not the owner, not an operator of the
\* owner) has transferred the token
C8_Witness ==
    /\ last.op = "transfer_from"
    /\ last.res = "Ok"
    /\ last.caller # last.from
    /\ <<last.from, last.caller>> \notin operator_approvals

\* C9 (as claimed): after a successful burn(id), get_approved(id) is None.
C9_BurnClearsApproval ==
    [][ (last'.op = "burn" /\ last'.res = "Ok")
          => get_approved(Ledger', last'.id) = None ]_vars

\* the result of transfer_from(o, dest, id) called by op in the current state
TransferFromResult(op, o, dest, id) == transfer_from(Ledger, op, o, dest, id).res

\* a successful set_approval_for_all(op, approved) by o sets the relation
\* (o, op) to `approved`, and the relation changes in no other step
OperatorRelationFollowsCalls ==
    /\ (last'.op = "set_approval_for_all" /\ last'.res = "Ok")
          => ((<<last'.caller, last'.to>> \in operator_approvals') <=> last'.approved)
    /\ \A o \in Callers, op \in Callers :
          ((<<o, op>> \in operator_approvals') # (<<o, op>> \in operator_approvals))
            => /\ last'.op = "set_approval_for_all"
               /\ last'.caller = o
               /\ last'.to = op

\* C10 (as claimed): while op is an operator of o, op's transfer_from(o,
\* dest, id) of any token owned by o succeeds; once o has revoked op, the
\* same call returns NotApproved.
C10_OperatorGrantAndRevoke ==
    [][ /\ OperatorRelationFollowsCalls
        /\ (last'.op = "set_approval_for_all" /\ last'.res = "Ok") =>
              \A id \in IdArgs, dest \in Callers :
                  token_owner'[id] = Some(last'.caller) =>
                      transfer_from(Ledger', last'.to, last'.caller, dest, id).res
                          = IF last'.approved THEN "Ok" ELSE "NotApproved" ]_vars

\* in the current state: an operator of the owner passes the authorization
\* of transfer_from for every token of the owner (Ok, or NotAllowed when the
\* destination is the null account); an account that is not an operator
\* gets NotApproved unless it is the approved delegate of the id
OperatorAuthorization ==
    \A o \in Callers, op \in Callers, id \in IdArgs, dest \in Accounts :
        (op # o /\ token_owner[id] = Some(o)) =>
            TransferFromResult(op, o, dest, id) =
                IF <<o, op>> \in operator_approvals \/ token_approvals[id] = Some(op)
                THEN (IF dest = NullAccount THEN "NotAllowed" ELSE "Ok")
                ELSE "NotApproved"

\* C10 (amended): after o's set_approval_for_all(op, true), op's
\* transfer_from(o, dest, id) of any token owned by o returns Ok (NotAllowed
\* when dest is the null account) until o revokes; after o's
\* set_approval_for_all(op, false) the same call returns NotApproved unless
\* op is the approved delegate of id, in which case it still succeeds.
C10_OperatorGrantAndRevokeUnlessDelegate ==
    /\ []OperatorAuthorization
    /\ [][OperatorRelationFollowsCalls]_vars

\* C10 witness: o has revoked op while op is still the approved delegate of
\* one of o's tokens
C10_Witness ==
    /\ last.op = "set_approval_for_all"
    /\ last.res = "Ok"
    /\ ~last.approved
    /\ \E id \in IdArgs :
          /\ token_owner[id] = Some(last.caller)
          /\ token_approvals[id] = Some(last.to)

\* C11: burn(id) returns Ok iff id exists and the caller is its current
\* owner; any other caller of an existing id (its approved delegate or an
\* operator of its owner included) gets NotOwner, a non-existent id gets
\* TokenNotFound, and both errors leave the storage unchanged; after Ok,
\* owner_of(id) is None and the former owner's balance is one less.
C11_BurnOnlyByOwner ==
    [][ last'.op = "burn" =>
          /\ (last'.res = "Ok") <=> (owner_of(Ledger, last'.id) = Some(last'.caller))
          /\ owner_of(Ledger, last'.id) = None =>
                (last'.res = "TokenNotFound" /\ UNCHANGED ledgerVars)
          /\ (/\ IsSome(owner_of(Ledger, last'.id))
              /\ owner_of(Ledger, last'.id) # Some(last'.caller)) =>
                (last'.res = "NotOwner" /\ UNCHANGED ledgerVars)
          /\ last'.res = "Ok" =>
                /\ owner_of(Ledger', last'.id) = None
                /\ balance_of(Ledger', last'.caller)
                      = balance_of(Ledger, last'.caller) - 1 ]_vars

\* C11 witness: the approved delegate of an existing token, who is not its
\* owner, has called burn and got NotOwner
C11_Witness ==
    /\ last.op = "burn"
    /\ last.res = "NotOwner"
    /\ IsSome(token_owner[last.id])
    /\ token_approvals[last.id] = Some(last.caller)

\* C12: a mint by the contract owner of a triple whose derived id is
\* currently owned (by anyone) returns TokenExists and leaves the storage as
\* it was before the call.
C12_MintExistingFails ==
    [][ (/\ last'.op = "mint"
         /\ is_owner(Ledger, last'.caller)
         /\ IsSome(owner_of(Ledger, TokenIdFrom(last'.cid, last'.to, last'.bn)))) =>
            (last'.res = "TokenExists" /\ UNCHANGED ledgerVars) ]_vars

\* C12 witness: a mint returned TokenExists for an id that has moved on to
\* an account other than the recipient of the triple
C12_Witness ==
    /\ last.op = "mint"
    /\ last.res = "TokenExists"
    /\ IsSome(token_owner[last.id])
    /\ token_owner[last.id] # Some(last.to)

\* C13: a successful mint(fragment_cid, recipient, block_number) returns the
\* id derived from exactly that triple; afterwards owner_of(id) is the
\* recipient, the recipient's balance is one more than before, and the
\* acknowledgement payload of id is {fragment_cid, block_number}.
C13_MintCreatesDerivedId ==
    [][ (last'.op = "mint" /\ last'.res = "Ok") =>
          LET id == TokenIdFrom(last'.cid, last'.to, last'.bn) IN
            /\ last'.ret = Some(id)
            /\ owner_of(Ledger', id) = Some(last'.to)
            /\ balance_of(Ledger', last'.to) = balance_of(Ledger, last'.to) + 1
            /\ get_fragment_acknowledgment(Ledger', id)
                  = Some(FragmentAcknowledgement(last'.cid, last'.bn)) ]_vars

\* C13 witness: a contract owner other than the deployer has minted a token
\* to an account other than itself
C13_Witness ==
    /\ last.op = "mint"
    /\ last.res = "Ok"
    /\ last.caller # Alice
    /\ last.to # last.caller
    /\ token_owner[Unwrap(last.ret)] = Some(last.to)

\* C14: a successful claim_fragment(proof, cid, secret) by caller c in block
\* b mints exactly one token: the id derived from (cid, c, b), which was not
\* owned before, is owned by c afterwards with payload (cid, b), and no
\* other id changes owner.
C14_ClaimMintsTokenToCaller ==
    [][ (last'.op = "claim_fragment" /\ last'.res = "Ok") =>
          LET id == TokenIdFrom(last'.cid, last'.caller, last'.bn) IN
            /\ owner_of(Ledger, id) = None
            /\ token_owner' = [token_owner EXCEPT ![id] = Some(last'.caller)]
            /\ balance_of(Ledger', last'.caller)
                  = balance_of(Ledger, last'.caller) + 1
            /\ get_fragment_acknowledgment(Ledger', id)
                  = Some(FragmentAcknowledgement(last'.cid, last'.bn))
            /\ last'.bn = env_block_number' ]_vars

\* C14 witness: an account other than the round's owner has claimed, and
\* holds the token of its triple while the round's account holds none
C14_Witness ==
    /\ last.op = "claim_fragment"
    /\ last.res = "Ok"
    /\ last.caller # round_contract_owner
    /\ token_owner[TokenIdFrom(last.cid, last.caller, last.bn)] = Some(last.caller)
    /\ \A id \in TokenIds : token_owner[id] # Some(RoundAccount)

\* the messages that begin with ensure_owner()
PrivilegedOps == {"mint", "transfer_ownership", "renounce_ownership", "transfer_balance"}

\* C15: a privileged message (mint, transfer_ownership, renounce_ownership,
\* transfer_balance) called by an account that is not the contract owner
\* panics and leaves the storage unchanged; contract_owner changes only in a
\* successful transfer_ownership or renounce_ownership called by the account
\* that holds it.
C15_PrivilegedOnlyByContractOwner ==
    [][ /\ (last'.op \in PrivilegedOps /\ ~is_owner(Ledger, last'.caller)) =>
              (last'.res = "Panic" /\ last'.events = <<>> /\ UNCHANGED ledgerVars)
        /\ contract_owner' # contract_owner =>
              /\ last'.op \in {"transfer_ownership", "renounce_ownership"}
              /\ last'.res = "Ok"
              /\ last'.caller = contract_owner ]_vars

\* C15 witness: the role has moved away from the deployer, whose mint then
\* panicked
C15_Witness ==
    /\ last.op = "mint"
    /\ last.res = "Panic"
    /\ last.caller = Alice
    /\ contract_owner = Bob

\* C16: after a successful renounce_ownership the contract owner is the null
\* account; from then on it stays the null account and every mint,
\* transfer_ownership, renounce_ownership and transfer_balance, whoever calls
\* it, panics and writes nothing.
C16_RenounceIsPermanent ==
    /\ []((last.op = "renounce_ownership" /\ last.res = "Ok")
            => contract_owner = NullAccount)
    /\ [][ contract_owner = NullAccount =>
              /\ contract_owner' = NullAccount
              /\ last'.op \in PrivilegedOps =>
                    (last'.res = "Panic" /\ UNCHANGED ledgerVars) ]_vars

\* C16 witness: the deployer renounced earlier, tokens it had minted are
\* still owned, and its latest transfer_ownership panicked
C16_Witness ==
    /\ contract_owner = NullAccount
    /\ last.op = "transfer_ownership"
    /\ last.res = "Panic"
    /\ last.to = last.caller
    /\ \E id \in TokenIds : IsSome(token_owner[id])

\* C17 (as claimed): in every reachable state is_owner(null account) is
\* false, for the ledger and for the round.
C17_NullAccountNeverOwner ==
    /\ ~is_owner(Ledger, NullAccount)
    /\ ~round_is_owner(Round, NullAccount)

\* the messages of the ledger that emit events
EventOps == {"mint", "burn", "transfer", "transfer_from", "approve", "set_approval_for_all"}

\* the one event a successful call of the last message emits
EventOf(c) ==
    CASE c.op = "mint" -> TransferEvent(NullAccount, c.to, TokenIdFrom(c.cid, c.to, c.bn))
      [] c.op = "burn" -> TransferEvent(c.caller, NullAccount, c.id)
      [] c.op = "transfer" -> TransferEvent(c.caller, c.to, c.id)
      [] c.op = "transfer_from" -> TransferEvent(c.from, c.to, c.id)
      [] c.op = "approve" -> ApprovalEvent(c.caller, c.to, c.id)
      [] c.op = "set_approval_for_all" -> ApprovalForAllEvent(c.caller, c.to, c.approved)

\* C18: a call of mint, burn, transfer, transfer_from, approve or
\* set_approval_for_all that does not return Ok has emitted no event; one
\* that returns Ok has emitted exactly one: Transfer for mint (source the
\* null account), burn (destination the null account) and the transfers,
\* Approval for approve, ApprovalForAll for set_approval_for_all.
C18_EventsOnlyOnSuccess ==
    last.op \in EventOps =>
        last.events = IF last.res = "Ok" THEN <<EventOf(last)>> ELSE <<>>

\* C18 witness: set_approval_for_all naming the caller itself returned
\* NotAllowed without an event
C18_Witness ==
    /\ last.op = "set_approval_for_all"
    /\ last.res = "NotAllowed"
    /\ last.to = last.caller
    /\ last.events = <<>>

\* the caller may approve for id: it is the owner of id or an operator of
\* that owner
MayApprove(caller, id) ==
    /\ IsSome(owner_of(Ledger, id))
    /\ \/ Unwrap(owner_of(Ledger, id)) = caller
       \/ approved_for_all(Ledger, Unwrap(owner_of(Ledger, id)), caller)

\* C19: approve(delegate, id) returns Ok only if the caller is the owner of
\* id or an operator of that owner; a non-existent id gets TokenNotFound,
\* any other caller of an existing id (its approved delegate included) gets
\* NotAllowed, a null-account delegate gets NotAllowed; after Ok,
\* get_approved(id) is the delegate; after an error the storage is unchanged.
C19_ApproveNeedsOwnerOrOperator ==
    [][ last'.op = "approve" =>
          /\ last'.res = "Ok" => MayApprove(last'.caller, last'.id)
          /\ owner_of(Ledger, last'.id) = None => last'.res = "TokenNotFound"
          /\ (IsSome(owner_of(Ledger, last'.id)) /\ ~MayApprove(last'.caller, last'.id))
                => last'.res = "NotAllowed"
          /\ (IsSome(owner_of(Ledger, last'.id)) /\ last'.to = NullAccount)
                => last'.res = "NotAllowed"
          /\ last'.res = "Ok" => get_approved(Ledger', last'.id) = Some(last'.to)
          /\ last'.res # "Ok" => UNCHANGED ledgerVars ]_vars

\* C19 witness: the approved delegate of a token, neither its owner nor an
\* operator of its owner, called approve for it and got NotAllowed
C19_Witness ==
    /\ last.op = "approve"
    /\ last.res = "NotAllowed"
    /\ last.to # NullAccount
    /\ token_approvals[last.id] = Some(last.caller)
    /\ ~MayApprove(last.caller, last.id)

\* C20 (as claimed): an approve by the owner or an operator, naming a
\* delegate, on a token that already has an approval entry returns
\* CannotInsert and leaves the entry as it is; an approval entry is removed
\* only by a successful transfer of that token.
C20_ApprovalSingleSlot ==
    [][ /\ (/\ last'.op = "approve"
            /\ MayApprove(last'.caller, last'.id)
            /\ last'.to # NullAccount
            /\ IsSome(get_approved(Ledger, last'.id))) =>
                (last'.res = "CannotInsert" /\ token_approvals' = token_approvals)
        /\ \A id \in TokenIds :
              (IsSome(get_approved(Ledger, id)) /\ get_approved(Ledger', id) = None) =>
                  /\ last'.op \in TransferOps
                  /\ last'.res = "Ok"
                  /\ last'.id = id ]_vars

\* C21: set_approval_for_all(op, approved) by c returns NotAllowed with the
\* storage unchanged when op = c; otherwise it returns Ok, afterwards
\* is_approved_for_all(c, op) = approved whatever it was before, no other
\* (owner, operator) pair and nothing else in the storage changes, and one
\* ApprovalForAll event is emitted, also when the relation did not change.
C21_SetApprovalForAll ==
    [][ last'.op = "set_approval_for_all" =>
          IF last'.to = last'.caller
          THEN last'.res = "NotAllowed" /\ UNCHANGED ledgerVars
          ELSE /\ last'.res = "Ok"
               /\ is_approved_for_all(Ledger', last'.caller, last'.to) = last'.approved
               /\ \A o \in Accounts, op \in Accounts :
                     <<o, op>> # <<last'.caller, last'.to>> =>
                        is_approved_for_all(Ledger', o, op) = is_approved_for_all(Ledger, o, op)
               /\ UNCHANGED <<token_owner, token_approvals, owned_tokens_count,
                              contract_owner, fragment_acknowledgments>>
               /\ last'.events =
                     <<ApprovalForAllEvent(last'.caller, last'.to, last'.approved)>> ]_vars

\* C21 witness: a revocation of an operator that is not in the relation
\* returned Ok and emitted its event, while another pair is in the relation
C21_Witness ==
    /\ last.op = "set_approval_for_all"
    /\ last.res = "Ok"
    /\ ~last.approved
    /\ last.events = <<ApprovalForAllEvent(last.caller, last.to, FALSE)>>
    /\ operator_approvals = {<<last.to, last.caller>>}

\* C22 (as claimed): transfer and transfer_from return Ok, TokenNotFound,
\* NotApproved or NotOwner and nothing else.
C22_TransferErrorSet ==
    last.op \in TransferOps =>
        last.res \in {"Ok", "TokenNotFound", "NotApproved", "NotOwner"}

\* C22 (amended): transfer and transfer_from return Ok, TokenNotFound,
\* NotApproved, NotOwner or NotAllowed, never TokenExists or
\* CannotFetchValue and never a panic; NotAllowed is returned exactly when
\* the id exists, the caller is authorized, `from` is the owner and the
\* destination is the null account.
C22_TransferErrorSetWithNotAllowed ==
    [][ last'.op \in TransferOps =>
          /\ last'.res \in {"Ok", "TokenNotFound", "NotApproved", "NotOwner", "NotAllowed"}
          /\ (last'.res = "NotAllowed") <=>
                /\ owner_of(Ledger, last'.id) = Some(last'.from)
                /\ approved_or_owner(Ledger, last'.caller, last'.id, last'.from)
                /\ last'.to = NullAccount ]_vars

\* C22 witness: an operator's transfer_from to the null account returned
\* NotAllowed
C22_Witness ==
    /\ last.op = "transfer_from"
    /\ last.res = "NotAllowed"
    /\ last.to = NullAccount
    /\ <<last.from, last.caller>> \in operator_approvals

\* the verifier's answer for the claim c in the current round (c.cid known)
Verifies(c) ==
    verify(c.proof, mmr_root, Unwrap(get_fragment(Round, c.cid)).mmr_pos, LeafFrom(c.hash))

\* the proof generated off chain for the fragment cid
ProofOf(cid) == gen_proof(RoundLeaves, Unwrap(get_fragment(Round, cid)).mmr_pos)

\* C23: claim_fragment for a cid that is not in the round's fragment list
\* returns NotFound whatever the proof and the secret are, and changes
\* neither the ledger's nor the round's storage.
C23_UnknownCidNotFound ==
    [][ (last'.op = "claim_fragment" /\ get_fragment(Round, last'.cid) = None) =>
          /\ last'.res = "NotFound"
          /\ last'.events = <<>>
          /\ UNCHANGED <<ledgerVars, roundVars>> ]_vars

\* C23 witness: a claim of an unknown cid with the mock proof, which the
\* verifier cannot process at the position of a fragment, returned NotFound
C23_Witness ==
    /\ last.op = "claim_fragment"
    /\ last.res = "NotFound"
    /\ last.proof = mock_proof
    /\ verify(last.proof, mmr_root, fragments[1].mmr_pos, LeafFrom(last.hash)) = "Err"

C25_LedgerErrorIsWrapped ==
    [][ (/\ last'.op = "claim_fragment"
         /\ IsSome(get_fragment(Round, last'.cid))
         /\ Verifies(last') = "true"
         /\ mint(Ledger, RoundAccount, last'.cid, last'.caller, last'.bn).res
                \in LedgerErrors) =>
          /\ last'.res =
                FaNFT(mint(Ledger, RoundAccount, last'.cid, last'.caller, last'.bn).res)
          /\ last'.events = <<>>
          /\ UNCHANGED <<ledgerVars, roundVars>> ]_vars

\* C25 witness: a verified claim was refused by the ledger because the
\* caller still owns the token of the same triple
C25_Witness ==
    /\ last.op = "claim_fragment"
    /\ last.res = FaNFT("TokenExists")
    /\ Verifies(last) = "true"
    /\ token_owner[last.id] = Some(last.caller)

\* C26: for every sequence of pushed leaves and every leaf position p,
\* verify(get_root(), (p, leaf at p), gen_proof(p)) is true, and with the
\* claimed leaf or one item of the proof replaced by a different value it
\* is false.
C26_MmrRoundTrip ==
    last.op = "verify" =>
        last.res = IF /\ last.proof = gen_proof(MmrLeaves, last.id)
                      /\ last.hash = last.cid
                   THEN "true" ELSE "false"

\* C26 witness: in an MMR of the most leaves, with more than one peak, a
\* proof of two or more items with one item replaced was rejected for the
\* leaf's own element
C26_Witness ==
    /\ last.op = "verify"
    /\ last.res = "false"
    /\ Len(fragments) = MaxLeaves
    /\ Len(get_peaks(mmr_size_of(MmrLeaves))) > 1
    /\ last.hash = last.cid
    /\ Len(last.proof.proof) >= 2
    /\ last.proof # gen_proof(MmrLeaves, last.id)

C28_TransferFromFrame ==
    [][ (last'.op = "transfer_from" /\ last'.res = "Ok" /\ last'.from # last'.to) =>
          /\ owner_of(Ledger', last'.id) = Some(last'.to)
          /\ balance_of(Ledger', last'.from) = balance_of(Ledger, last'.from) - 1
          /\ balance_of(Ledger', last'.to) = balance_of(Ledger, last'.to) + 1
          /\ \A t \in TokenIds \ {last'.id} :
                /\ owner_of(Ledger', t) = owner_of(Ledger, t)
                /\ get_approved(Ledger', t) = get_approved(Ledger, t)
          /\ \A a \in Accounts \ {last'.from, last'.to} :
                balance_of(Ledger', a) = balance_of(Ledger, a)
          /\ UNCHANGED <<operator_approvals, fragment_acknowledgments, contract_owner>> ]_vars

\* C28 witness: an account that is neither `from` nor `to` has moved a token
\* while another token carries an approval and an operator is registered
C28_Witness ==
    /\ last.op = "transfer_from"
    /\ last.res = "Ok"
    /\ last.from # last.to
    /\ last.caller # last.from
    /\ owner_of(Ledger, last.id) = Some(last.to)
    /\ \E t \in TokenIds \ {last.id} : IsSome(get_approved(Ledger, t))
    /\ operator_approvals # {}

\* C29: in every reachable state, transfer(destination, id) called by c has
\* the result, the post-state and the events of transfer_from(c, destination,
\* id) called by c; a caller authorized for id that is not its owner gets
\* NotOwner from transfer.
C29_TransferIsTransferFromSelf ==
    \A c \in Callers, destination \in Accounts, id \in IdArgs :
        /\ transfer(Ledger, c, destination, id)
              = transfer_from(Ledger, c, c, destination, id)
        /\ (/\ IsSome(owner_of(Ledger, id))
            /\ owner_of(Ledger, id) # Some(c)
            /\ approved_or_owner(Ledger, c, id, Unwrap(owner_of(Ledger, id)))) =>
                /\ transfer(Ledger, c, destination, id).res = "NotOwner"
                /\ transfer(Ledger, c, destination, id).st = Ledger

\* C29 witness: the approved delegate of a token called transfer and got
\* NotOwner
C29_Witness ==
    /\ last.op = "transfer"
    /\ last.res = "NotOwner"
    /\ get_approved(Ledger, last.id) = Some(last.caller)
    /\ last.to # NullAccount

\* C30: transfer_from answers a non-existent id with TokenNotFound for every
\* caller; for an existing id a caller that is neither owner, delegate nor
\* operator gets NotApproved, also when `from` is not the owner; an
\* authorized caller passing a `from` other than the owner gets NotOwner.
C30_TransferFromCheckOrder ==
    [][ last'.op = "transfer_from" =>
          LET owner == owner_of(Ledger, last'.id) IN
            /\ owner = None => last'.res = "TokenNotFound"
            /\ (IsSome(owner)
                  /\ ~approved_or_owner(Ledger, last'.caller, last'.id, Unwrap(owner)))
                  => last'.res = "NotApproved"
            /\ (IsSome(owner)
                  /\ approved_or_owner(Ledger, last'.caller, last'.id, Unwrap(owner))
                  /\ owner # Some(last'.from))
                  => last'.res = "NotOwner" ]_vars

\* C30 witness: an unauthorized caller named itself as `from` for a token
\* of another account and got NotApproved
C30_Witness ==
    /\ last.op = "transfer_from"
    /\ last.res = "NotApproved"
    /\ last.from = last.caller
    /\ IsSome(owner_of(Ledger, last.id))
    /\ owner_of(Ledger, last.id) # Some(last.from)

\* the messages of the round
RoundOps ==
    { "claim_fragment", "claim_reward", "get_fragments",
      "round.transfer_ownership", "round.renounce_ownership" }

C32_OwnerCountIsPositive ==
    /\ \A id \in TokenIds :
          IsSome(token_owner[id]) =>
              /\ IsSome(owned_tokens_count[Unwrap(token_owner[id])])
              /\ Unwrap(owned_tokens_count[Unwrap(token_owner[id])]) >= 1
    /\ \A c \in Callers, id \in IdArgs :
          burn(Ledger, c, id).res \in {"Ok", "TokenNotFound", "NotOwner"}
    /\ last.op = "burn" => last.res \in {"Ok", "TokenNotFound", "NotOwner"}
    /\ last.op \in TransferOps => last.res \notin {"CannotFetchValue", "Panic"}

\* C32 witness: an account has burned its last token, so its stored count is
\* 0, while the other account still owns a token
C32_Witness ==
    /\ last.op = "burn"
    /\ last.res = "Ok"
    /\ owned_tokens_count[last.caller] = Some(0)
    /\ \E id \in TokenIds :
          IsSome(token_owner[id]) /\ token_owner[id] # Some(last.caller)

\* C33 (as claimed): immediately after a successful mint of id (a re-mint
\* of a burned triple included) get_approved(id) is None, and only the new
\* owner or an operator of the new owner can transfer or approve the token.
C33_ApprovalDiesWithToken ==
    (last.op = "mint" /\ last.res = "Ok") =>
        /\ get_approved(Ledger, Unwrap(last.ret)) = None
        /\ \A c \in Callers, dest \in Callers :
              (c # last.to /\ ~approved_for_all(Ledger, last.to, c)) =>
                  /\ transfer_from(Ledger, c, last.to, dest, Unwrap(last.ret)).res # "Ok"
                  /\ approve(Ledger, c, dest, Unwrap(last.ret)).res # "Ok"

\* the payload an id can carry: the one of the triple it is derived from
PayloadOfId(id) ==
    { FragmentAcknowledgement(cid, bn) :
        <<cid, bn>> \in { t \in FragmentCids \X BlockNumbers :
                            \E a \in Accounts : TokenIdFrom(t[1], a, t[2]) = id } }

\* C34: get_fa_info(id) is Some exactly when id has an owner and a payload,
\* and then returns both; a stored payload is the one recorded at mint;
\* a successful burn(id) leaves get_fa_info(id) None and the payload of id
\* in place; transfer and transfer_from change no payload.
C34_PayloadSurvivesBurn ==
    /\ [](\A id \in TokenIds :
            /\ IsSome(get_fa_info(Ledger, id))
                  <=> (IsSome(owner_of(Ledger, id))
                        /\ IsSome(get_fragment_acknowledgment(Ledger, id)))
            /\ IsSome(get_fa_info(Ledger, id)) =>
                  get_fa_info(Ledger, id) =
                      Some(<<Unwrap(get_fragment_acknowledgment(Ledger, id)),
                             Unwrap(owner_of(Ledger, id))>>)
            /\ IsSome(owner_of(Ledger, id)) =>
                  /\ IsSome(get_fragment_acknowledgment(Ledger, id))
                  /\ Unwrap(get_fragment_acknowledgment(Ledger, id)) \in PayloadOfId(id))
    /\ [][ /\ (last'.op = "burn" /\ last'.res = "Ok") =>
                /\ get_fa_info(Ledger', last'.id) = None
                /\ IsSome(get_fragment_acknowledgment(Ledger', last'.id))
                /\ get_fragment_acknowledgment(Ledger', last'.id)
                      = get_fragment_acknowledgment(Ledger, last'.id)
           /\ last'.op \in TransferOps =>
                fragment_acknowledgments' = fragment_acknowledgments ]_vars

\* C34 witness: a token was burned: it has no owner and no get_fa_info, but
\* its payload is still returned
C34_Witness ==
    /\ last.op = "burn"
    /\ last.res = "Ok"
    /\ get_fa_info(Ledger, last.id) = None
    /\ IsSome(get_fragment_acknowledgment(Ledger, last.id))
    /\ owner_of(Ledger, last.id) = None

\* the round R with the release_block of its k-th fragment set to rb
WithReleaseBlock(R, k, rb) ==
    [R EXCEPT !.fragments[k].release_block = rb]

\* release thresholds at, below and above every block a claim runs in
ReleaseBlocks == BlockNumbers \cup {ReleaseBlock, ReleaseBlock + 1}

\* C35: the outcome of claim_fragment does not depend on a fragment's
\* release_block: on every claim_fragment step, the same call on a round that
\* differs only in the release_block of one fragment gives the same result,
\* the same ledger storage and the same events.
C35_ClaimIgnoresReleaseBlock ==
    [][ last'.op = "claim_fragment" =>
          \A k \in 1..Len(fragments), rb \in ReleaseBlocks :
              LET o == claim_fragment(WithReleaseBlock(Round, k, rb), Ledger,
                                      last'.caller, last'.bn, last'.proof,
                                      last'.cid, last'.hash)
              IN  /\ o.res = last'.res
                  /\ o.ret = last'.ret
                  /\ o.st = Ledger'
                  /\ o.events = last'.events ]_vars

\* C35 witness: a claim succeeded in a block below the release threshold
\* of the claimed fragment
C35_Witness ==
    /\ last.op = "claim_fragment"
    /\ last.res = "Ok"
    /\ IsSome(get_fragment(Round, last.cid))
    /\ last.bn < Unwrap(get_fragment(Round, last.cid)).release_block
    /\ IsSome(token_owner[last.id])

=============================================================================
